---------------------------- MODULE Spec2Model ----------------------------
(***************************************************************************)
(* A model of src/bench.rs: four binary layouts of a dynamically typed     *)
(* value (aligned enum, struct-of-arrays, packed tag+bytes, NaN-tagged     *)
(* word) and the elementwise "typed add" kernel each benchmark runs.       *)
(*                                                                         *)
(* A u64 is a tuple of four 16-bit limbs, most significant first, because  *)
(* TLC's integers are 32 bits wide: <<l3, l2, l1, l0>> is the word         *)
(* l3*2^48 + l2*2^32 + l1*2^16 + l0.  An f64 is its IEEE-754 binary64 bit  *)
(* pattern, a u64.  A pointer is a 64-bit address, a u64.                  *)
(***************************************************************************)
EXTENDS Integers, Sequences, FiniteSets, TLC

(***************************************************************************)
(* Bounds of the model.                                                    *)
(***************************************************************************)
\* The array length N of src/bench.rs line 10 (1,000,000 there), scaled down.
N == 34
\* bencher.iter runs its closure an unspecified number of times: at most this many.
MaxPasses == 2
\* The sampled f64 and pointer arguments take the low limbs 0..LowMax.
LowMax == 1

(***************************************************************************)
(* Program constants.                                                      *)
(***************************************************************************)
X_NIL_RATE == 13
Y_NIL_RATE == 33

(***************************************************************************)
(* 64-bit words.                                                           *)
(***************************************************************************)
Limb == 2^16

ZeroWord == <<0, 0, 0, 0>>

RECURSIVE BitAnd(_, _, _)
\* a & b on the low n bits of two naturals.
BitAnd(a, b, n) ==
  IF n = 0 THEN 0
  ELSE ((a % 2) * (b % 2)) + (2 * BitAnd(a \div 2, b \div 2, n - 1))

RECURSIVE BitOr(_, _, _)
\* a | b on the low n bits of two naturals.
BitOr(a, b, n) ==
  IF n = 0 THEN 0
  ELSE (IF (a % 2) + (b % 2) > 0 THEN 1 ELSE 0) + (2 * BitOr(a \div 2, b \div 2, n - 1))

\* The u64 operator &.
WordAnd(v, w) == [k \in 1..4 |-> BitAnd(v[k], w[k], 16)]

\* The u64 operator |.
WordOr(v, w) == [k \in 1..4 |-> BitOr(v[k], w[k], 16)]

(***************************************************************************)
(* IEEE-754 binary64 arithmetic on bit patterns, round to nearest, ties to *)
(* even.  A significand is a pair <<hi, lo>> standing for hi*2^28 + lo,    *)
(* lo < 2^28.                                                              *)
(***************************************************************************)
Base == 2^28

BigZero == <<0, 0>>

BigAdd(a, b) ==
  LET s == a[2] + b[2]
  IN  <<a[1] + b[1] + (s \div Base), s % Base>>

\* a - b, for a >= b.
BigSub(a, b) ==
  IF a[2] >= b[2] THEN <<a[1] - b[1], a[2] - b[2]>>
  ELSE <<a[1] - b[1] - 1, a[2] + Base - b[2]>>

BigLt(a, b) == a[1] < b[1] \/ (a[1] = b[1] /\ a[2] < b[2])

BigShl1(a) == <<(2 * a[1]) + ((2 * a[2]) \div Base), (2 * a[2]) % Base>>

\* One bit to the right, the bit shifted out kept in the lowest bit (sticky).
BigShrSticky1(a) ==
  LET lo == ((a[1] % 2) * (Base \div 2)) + (a[2] \div 2)
  IN  <<a[1] \div 2, IF (a[2] % 2) = 1 /\ (lo % 2) = 0 THEN lo + 1 ELSE lo>>

RECURSIVE BigShrSticky(_, _)
BigShrSticky(a, d) ==
  IF d = 0 \/ a = BigZero \/ a = <<0, 1>> THEN a
  ELSE BigShrSticky(BigShrSticky1(a), d - 1)

\* 8 * a.
BigTimes8(a) == <<(8 * a[1]) + ((8 * a[2]) \div Base), (8 * a[2]) % Base>>

RECURSIVE BigTimes(_, _)
\* k * a for a natural k, by doubling.
BigTimes(a, k) ==
  IF k = 0 THEN BigZero
  ELSE LET h == BigShl1(BigTimes(a, k \div 2))
       IN  IF (k % 2) = 1 THEN BigAdd(h, a) ELSE h

\* The fields of a binary64 bit pattern.
F64Sign(w) == w[1] \div 32768
F64Exp(w)  == (w[1] % 32768) \div 16
F64Frac(w) == <<((w[1] % 16) * (2^20)) + (w[2] * 16) + (w[3] \div 4096),
                ((w[3] % 4096) * Limb) + w[4]>>

F64Pack(sign, exp, frac) ==
  << (sign * 32768) + (exp * 16) + (frac[1] \div (2^20)),
     (frac[1] \div 16) % Limb,
     ((frac[1] % 16) * 4096) + (frac[2] \div Limb),
     frac[2] % Limb >>

F64IsNaN(w)  == F64Exp(w) = 2047 /\ F64Frac(w) # BigZero
F64IsInf(w)  == F64Exp(w) = 2047 /\ F64Frac(w) = BigZero
F64IsFinite(w) == F64Exp(w) # 2047

F64Inf(sign) == F64Pack(sign, 2047, BigZero)

\* The significand with its hidden bit, and the exponent it is scaled by.
F64Sig(w) ==
  IF F64Exp(w) = 0 THEN F64Frac(w) ELSE <<F64Frac(w)[1] + (2^24), F64Frac(w)[2]>>
F64EffExp(w) == IF F64Exp(w) = 0 THEN 1 ELSE F64Exp(w)

RECURSIVE F64Norm(_, _)
\* Brings s (a significand times 8: guard, round and sticky bits below it)
\* into [2^55, 2^56), or to exponent 1 when it is subnormal.
F64Norm(e, s) ==
  IF s[1] >= Base THEN F64Norm(e + 1, BigShrSticky1(s))
  ELSE IF s[1] < Base \div 2 /\ e > 1 /\ s # BigZero THEN F64Norm(e - 1, BigShl1(s))
  ELSE <<e, s>>

\* Rounds the value s/8 * 2^(e - 1075) to a binary64 of the given sign.
F64Round(sign, e, s) ==
  LET n    == F64Norm(e, s)
      ne   == n[1]
      ns   == n[2]
      rem  == ns[2] % 8
      m0   == <<ns[1] \div 8, ((ns[1] % 8) * (Base \div 8)) + (ns[2] \div 8)>>
      up   == rem > 4 \/ (rem = 4 /\ (m0[2] % 2) = 1)
      m1   == IF up THEN BigAdd(m0, <<0, 1>>) ELSE m0
      over == m1[1] >= (2^25)
      m    == IF over THEN <<(2^24), 0>> ELSE m1
      fe   == IF over THEN ne + 1 ELSE ne
  IN  IF m = BigZero THEN F64Pack(sign, 0, BigZero)
      ELSE IF fe >= 2047 THEN F64Inf(sign)
      ELSE IF m[1] < (2^24) THEN F64Pack(sign, 0, m)
      ELSE F64Pack(sign, fe, <<m[1] - (2^24), m[2]>>)

\* a + b for finite a and b.
F64AddFinite(a, b) ==
  LET aBig  == \/ F64EffExp(a) > F64EffExp(b)
               \/ F64EffExp(a) = F64EffExp(b) /\ ~BigLt(F64Sig(a), F64Sig(b))
      big   == IF aBig THEN a ELSE b
      small == IF aBig THEN b ELSE a
      d     == F64EffExp(big) - F64EffExp(small)
      sb    == BigTimes8(F64Sig(big))
      ss    == BigShrSticky(BigTimes8(F64Sig(small)), d)
  IN  IF F64Sign(a) = F64Sign(b)
      THEN F64Round(F64Sign(a), F64EffExp(big), BigAdd(sb, ss))
      ELSE IF sb = ss THEN ZeroWord
      ELSE F64Round(F64Sign(big), F64EffExp(big), BigSub(sb, ss))

\* A NaN operand as an operation may hand it on: quiet bit set, either sign.
F64Quieted(w, sign) ==
  F64Pack(sign, 2047, <<BitOr(F64Frac(w)[1], (2^23), 24), F64Frac(w)[2]>>)

\* The NaNs an addition of a and b may produce: the quiet bit is set, the sign
\* is unspecified, the payload is zero or that of a NaN operand.
F64NaNResults(a, b) ==
  {F64Pack(s, 2047, <<(2^23), 0>>) : s \in {0, 1}}
    \cup {F64Quieted(w, s) : w \in {v \in {a, b} : F64IsNaN(v)}, s \in {0, 1}}

\* The bit patterns the f64 operator + may produce for a + b.
F64Add(a, b) ==
  IF F64IsNaN(a) \/ F64IsNaN(b) THEN F64NaNResults(a, b)
  ELSE IF F64IsInf(a) /\ F64IsInf(b)
    THEN IF F64Sign(a) = F64Sign(b) THEN {a} ELSE F64NaNResults(a, b)
  ELSE IF F64IsInf(a) THEN {a}
  ELSE IF F64IsInf(b) THEN {b}
  ELSE {F64AddFinite(a, b)}

RECURSIVE F64Reduce(_, _, _, _)
\* Shifts p right until it is below 2^53, keeping the last bit shifted out
\* (guard) and whether any earlier one was set (sticky).
F64Reduce(e, p, g, s) ==
  IF p[1] < (2^25) THEN <<e, BigAdd(BigTimes8(p), <<0, (4 * g) + s>>)>>
  ELSE F64Reduce(e + 1, <<p[1] \div 2, ((p[1] % 2) * (Base \div 2)) + (p[2] \div 2)>>,
                 p[2] % 2, IF g = 1 \/ s = 1 THEN 1 ELSE 0)

\* (i as f64) * c for an index i (exactly representable) and a finite c.
UsizeTimesF64(i, c) ==
  LET r == F64Reduce(F64EffExp(c), BigTimes(F64Sig(c), i), 0, 0)
  IN  IF i = 0 THEN F64Pack(F64Sign(c), 0, BigZero)
      ELSE F64Round(F64Sign(c), r[1], r[2])

\* The literals 1.92 and 3.13.
F64_1_92 == <<16382, 47185, 60293, 7864>>
F64_3_13 == <<16393, 2621, 28835, 55050>>


(***************************************************************************)
(* State.                                                                  *)
(***************************************************************************)
VARIABLES
  endian,     \* the target's byte order, which to_ne_bytes follows
  \* -- the running benchmark function
  bench,      \* "none", or the layout whose #[bench] function is running
  pc,         \* its position: idle, match, add, store_number, store_nil, store_tag, pass_done
  i,          \* the loop index of `for i in 0..N`
  pass,       \* complete runs of the closure given to bencher.iter
  x, y, results,            \* the three arrays of the running benchmark
  x_ts, y_ts, result_ts,    \* the tag arrays (separated_type_info only)
  arm,        \* the scrutinee of the match of the current step, as evaluated
  sum,        \* the f64 computed by the Number arm, before it is stored
  tested,     \* history: the operands the match of the current step found to be Number
  reads,      \* history: the unchecked numeric reads of the current step, <<array, index>>
  first,      \* history: results (and result_ts) as the first complete pass left them
  finished,   \* history: layout -> classification of its final results, per index
  \* -- one value under the constructors, classifiers and accessors
  vsrc,       \* the constructor call: <<"none">>, <<"nil">>, <<"number", f>>, <<"userdata", p>>
  uval, nval, \* the unaligned_tagged and nan_tagged Value it returned
  res,        \* what the last classifier or accessor call returned, per layout
  \* -- one kernel step on one pair of operands, in each layout
  ka, kb,     \* the operands: <<"Nil">>, <<"Number", f>>, <<"Userdata", p>>
  kout        \* layout -> the element the step wrote to results[i], or <<"none">>

benchVars == <<bench, pc, i, pass, x, y, results, x_ts, y_ts, result_ts,
               arm, sum, tested, reads, first, finished>>
valueVars == <<vsrc, uval, nval, res>>
kernelVars == <<ka, kb, kout>>
vars == <<endian, benchVars, valueVars, kernelVars>>

Layouts == {"aligned", "separated", "unaligned", "nan"}

None == <<"None">>
Some(v) == <<"Some", v>>

(***************************************************************************)
(* mod aligned_tagged                                                      *)
(***************************************************************************)
aligned_Nil == [tag |-> "Nil"]
aligned_Number(f) == [tag |-> "Number", val |-> f]
aligned_Userdata(p) == [tag |-> "Userdata", val |-> p]

\* The arm `match (a, b)` selects.
aligned_arm(a, b) ==
  IF a.tag = "Number" /\ b.tag = "Number" THEN "number" ELSE "nil"

\* A slip in the Number arm: `*r = Value::Number(*r + a + b)`, the sum added to
\* the number results[i] already holds.
aligned_sum_Accumulate(a, b) ==
  IF results[i + 1].tag = "Number"
  THEN UNION {F64Add(results[i + 1].val, s) : s \in F64Add(a.val, b.val)}
  ELSE F64Add(a.val, b.val)

\* a + b of the arm (&Value::Number(a), &Value::Number(b)).
aligned_sum(a, b) == F64Add(a.val, b.val)

(***************************************************************************)
(* mod separated_type_info                                                 *)
(***************************************************************************)
\* union ValueData: the member last written, and its bits.
ValueData_Nil == [member |-> "Nil"]
ValueData_Number(f) == [member |-> "Number", bits |-> f]
ValueData_Userdata(p) == [member |-> "Userdata", bits |-> p]

\* What a read of the member Number may yield: the bits when a number or a
\* pointer was last written; any bits when the union holds Nil: (), whose
\* eight bytes were never written.
UninitSamples == {ZeroWord, <<16368, 0, 0, 0>>, <<32761, 0, 0, 0>>, <<65535, 65535, 65535, 65535>>}
ValueData_read_Number(d) ==
  IF d.member = "Nil" THEN UninitSamples ELSE {d.bits}

\* A slip in the pattern: (ValueKind::Number, _), the second tag not tested.
separated_arm_FirstOnly(at, bt) ==
  IF at = "Number" THEN "number" ELSE "nil"

\* The arm `match (at, bt)` selects.
separated_arm(at, bt) ==
  IF at = "Number" /\ bt = "Number" THEN "number" ELSE "nil"

\* unsafe { a.Number + b.Number }
separated_sum(a, b) ==
  UNION {F64Add(p, q) : p \in ValueData_read_Number(a), q \in ValueData_read_Number(b)}

(***************************************************************************)
(* mod unaligned_tagged                                                    *)
(***************************************************************************)
\* u64::to_ne_bytes / f64::to_ne_bytes: the eight bytes in the target's order.
to_le_bytes(w) ==
  << w[4] % 256, w[4] \div 256, w[3] % 256, w[3] \div 256,
     w[2] % 256, w[2] \div 256, w[1] % 256, w[1] \div 256 >>
to_be_bytes(w) ==
  << w[1] \div 256, w[1] % 256, w[2] \div 256, w[2] % 256,
     w[3] \div 256, w[3] % 256, w[4] \div 256, w[4] % 256 >>
to_ne_bytes(w) == IF endian = "little" THEN to_le_bytes(w) ELSE to_be_bytes(w)

\* u64::from_ne_bytes
from_le_bytes(b) ==
  << (b[8] * 256) + b[7], (b[6] * 256) + b[5], (b[4] * 256) + b[3], (b[2] * 256) + b[1] >>
from_be_bytes(b) ==
  << (b[1] * 256) + b[2], (b[3] * 256) + b[4], (b[5] * 256) + b[6], (b[7] * 256) + b[8] >>
from_ne_bytes(b) == IF endian = "little" THEN from_le_bytes(b) ELSE from_be_bytes(b)

unaligned_is_nil(v) == v.discriminant = "Nil"
unaligned_is_number(v) == v.discriminant = "Number"
unaligned_is_userdata(v) == v.discriminant = "Userdata"

unaligned_as_number_unchecked(v) == from_ne_bytes(v.data)

unaligned_as_number(v) ==
  IF unaligned_is_number(v) THEN Some(unaligned_as_number_unchecked(v)) ELSE None

unaligned_as_userdata_unchecked(v) == from_ne_bytes(v.data)

unaligned_as_userdata(v) ==
  IF unaligned_is_userdata(v) THEN Some(unaligned_as_userdata_unchecked(v)) ELSE None

unaligned_from_nil == [discriminant |-> "Nil", data |-> to_ne_bytes(ZeroWord)]
unaligned_from_number(data) == [discriminant |-> "Number", data |-> to_ne_bytes(data)]
unaligned_from_userdata(data) == [discriminant |-> "Userdata", data |-> to_ne_bytes(data)]

\* A slip in the pattern: either discriminant Number selects the Number arm.
unaligned_arm_Either(ad, bd) ==
  IF ad = "Number" \/ bd = "Number" THEN "number" ELSE "nil"

\* The arm `match (&a.discriminant, &b.discriminant)` selects.
unaligned_arm(ad, bd) ==
  IF ad = "Number" /\ bd = "Number" THEN "number" ELSE "nil"

\* unsafe { a.as_number_unchecked() + b.as_number_unchecked() }
unaligned_sum(a, b) ==
  F64Add(unaligned_as_number_unchecked(a), unaligned_as_number_unchecked(b))

(***************************************************************************)
(* mod nan_tagged                                                          *)
(***************************************************************************)
\* k << 48, for k < 2^16.
Shl48(k) == <<k, 0, 0, 0>>

\* A slip in the enum: Nil first, as in the ValueKind of the other modules.
nan_ValueKind_NilFirst(kind) ==
  CASE kind = "Nil" -> Shl48(0)
    [] kind = "Number" -> Shl48(1)
    [] kind = "Userdata" -> Shl48(2)

\* enum ValueKind, #[repr(u64)]
nan_ValueKind(kind) ==
  CASE kind = "Number" -> Shl48(0)
    [] kind = "Nil" -> Shl48(1)
    [] kind = "Userdata" -> Shl48(2)

NAN_MASK  == <<32760, 0, 0, 0>>               \* 0x7FF8_0000_0000_0000
TYPE_MASK == <<7, 0, 0, 0>>                   \* 0x0007_0000_0000_0000
DATA_MASK == <<0, 65535, 65535, 65535>>       \* 0x0000_FFFF_FFFF_FFFF

get_nan_segment(v) == WordAnd(v, NAN_MASK)
get_type_segment(v) == WordAnd(v, TYPE_MASK)
get_data_segment(v) == WordAnd(v, DATA_MASK)

is_nan(v) == get_nan_segment(v) = NAN_MASK

compare_type_segment(v, discriminator) ==
  get_type_segment(v) = nan_ValueKind(discriminator)

\* A slip in is_number: the type segment of a NaN not looked at.
nan_is_number_NoTypeCheck(v) == ~is_nan(v)

nan_is_number(v) == ~is_nan(v) \/ compare_type_segment(v, "Number")
nan_is_nil(v) == is_nan(v) /\ compare_type_segment(v, "Nil")
nan_is_userdata(v) == is_nan(v) /\ compare_type_segment(v, "Userdata")

nan_as_number_unchecked(v) == v

nan_as_number(v) ==
  IF nan_is_number(v) THEN Some(nan_as_number_unchecked(v)) ELSE None

nan_as_userdata_unchecked(v) == get_data_segment(v)

nan_as_userdata(v) ==
  IF nan_is_userdata(v) THEN Some(nan_as_userdata_unchecked(v)) ELSE None

nan_from_number(data) == data
nan_from_nil == WordOr(NAN_MASK, nan_ValueKind("Nil"))
nan_from_userdata(data) == WordOr(WordOr(data, NAN_MASK), nan_ValueKind("Userdata"))

\* The arm `match (a.is_number(), b.is_number())` selects.
nan_arm(an, bn) == IF an /\ bn THEN "number" ELSE "nil"

\* unsafe { a.as_number_unchecked() + b.as_number_unchecked() }
nan_sum(a, b) == F64Add(nan_as_number_unchecked(a), nan_as_number_unchecked(b))

(***************************************************************************)
(* The loop step of each benchmark as a whole: the elements it may write   *)
(* to results[i] (and result_ts[i]) for the operands a and b.              *)
(***************************************************************************)
aligned_step(a, b) ==
  IF aligned_arm(a, b) = "number"
  THEN {aligned_Number(s) : s \in aligned_sum(a, b)}
  ELSE {aligned_Nil}

\* a and b are <<payload, tag>>; so is the result.
separated_step(a, b) ==
  IF separated_arm(a[2], b[2]) = "number"
  THEN {<<ValueData_Number(s), "Number">> : s \in separated_sum(a[1], b[1])}
  ELSE {<<ValueData_Nil, "Nil">>}

unaligned_step(a, b) ==
  IF unaligned_arm(a.discriminant, b.discriminant) = "number"
  THEN {unaligned_from_number(s) : s \in unaligned_sum(a, b)}
  ELSE {unaligned_from_nil}

nan_step(a, b) ==
  IF nan_arm(nan_is_number(a), nan_is_number(b)) = "number"
  THEN {nan_from_number(s) : s \in nan_sum(a, b)}
  ELSE {nan_from_nil}

(***************************************************************************)
(* The arrays each benchmark builds.                                       *)
(***************************************************************************)
\* make_vec(f): f(0), ..., f(N - 1), for a closure f given as a function on 0..N-1.
Indices == 0..(N - 1)
make_vec(f) == [k \in 1..N |-> f[k - 1]]

x_number(idx) == UsizeTimesF64(idx, F64_1_92)
y_number(idx) == UsizeTimesF64(idx, F64_3_13)

aligned_x_elem(idx) ==
  IF idx % X_NIL_RATE = 0 THEN aligned_Nil ELSE aligned_Number(x_number(idx))
aligned_y_elem(idx) ==
  IF idx % Y_NIL_RATE = 0 THEN aligned_Nil ELSE aligned_Number(y_number(idx))
aligned_results_elem(idx) == aligned_Nil

separated_x_elem(idx) ==
  IF idx % X_NIL_RATE = 0 THEN ValueData_Nil ELSE ValueData_Number(x_number(idx))
separated_x_ts_elem(idx) ==
  IF idx % X_NIL_RATE = 0 THEN "Nil" ELSE "Number"
separated_y_elem(idx) ==
  IF idx % Y_NIL_RATE = 0 THEN ValueData_Nil ELSE ValueData_Number(y_number(idx))
separated_y_ts_elem(idx) ==
  IF idx % Y_NIL_RATE = 0 THEN "Nil" ELSE "Number"
separated_results_elem(idx) == ValueData_Nil
separated_result_ts_elem(idx) == "Nil"

unaligned_x_elem(idx) ==
  IF idx % X_NIL_RATE = 0 THEN unaligned_from_nil ELSE unaligned_from_number(x_number(idx))
unaligned_y_elem(idx) ==
  IF idx % Y_NIL_RATE = 0 THEN unaligned_from_nil ELSE unaligned_from_number(y_number(idx))
unaligned_results_elem(idx) == unaligned_from_nil

nan_x_elem(idx) ==
  IF idx % X_NIL_RATE = 0 THEN nan_from_nil ELSE nan_from_number(x_number(idx))
nan_y_elem(idx) ==
  IF idx % Y_NIL_RATE = 0 THEN nan_from_nil ELSE nan_from_number(y_number(idx))
nan_results_elem(idx) == nan_from_nil

\* `let x = make_vec(..)` of the benchmark function of layout b.
InitialX(b) ==
  CASE b = "aligned" -> make_vec([idx \in Indices |-> aligned_x_elem(idx)])
    [] b = "separated" -> make_vec([idx \in Indices |-> separated_x_elem(idx)])
    [] b = "unaligned" -> make_vec([idx \in Indices |-> unaligned_x_elem(idx)])
    [] b = "nan" -> make_vec([idx \in Indices |-> nan_x_elem(idx)])

\* `let y = make_vec(..)`
InitialY(b) ==
  CASE b = "aligned" -> make_vec([idx \in Indices |-> aligned_y_elem(idx)])
    [] b = "separated" -> make_vec([idx \in Indices |-> separated_y_elem(idx)])
    [] b = "unaligned" -> make_vec([idx \in Indices |-> unaligned_y_elem(idx)])
    [] b = "nan" -> make_vec([idx \in Indices |-> nan_y_elem(idx)])

\* `let mut results = make_vec(..)`
InitialResults(b) ==
  CASE b = "aligned" -> make_vec([idx \in Indices |-> aligned_results_elem(idx)])
    [] b = "separated" -> make_vec([idx \in Indices |-> separated_results_elem(idx)])
    [] b = "unaligned" -> make_vec([idx \in Indices |-> unaligned_results_elem(idx)])
    [] b = "nan" -> make_vec([idx \in Indices |-> nan_results_elem(idx)])

\* The tag arrays: only separated_type_info has them.
InitialXTs(b) == IF b = "separated" THEN make_vec([idx \in Indices |-> separated_x_ts_elem(idx)]) ELSE <<>>
InitialYTs(b) == IF b = "separated" THEN make_vec([idx \in Indices |-> separated_y_ts_elem(idx)]) ELSE <<>>
InitialResultTs(b) == IF b = "separated" THEN make_vec([idx \in Indices |-> separated_result_ts_elem(idx)]) ELSE <<>>

(***************************************************************************)
(* What an element of a layout is, read back through the layout's own      *)
(* classification: <<"Nil">>, <<"Number", f>>, <<"Userdata", p>>, or        *)
(* <<"Unclassified">> when no classifier accepts it.  r is the element, rt *)
(* its tag (separated_type_info only).                                     *)
(***************************************************************************)
aligned_view(r) == IF r.tag = "Nil" THEN <<"Nil">> ELSE <<r.tag, r.val>>

separated_view(r, rt) ==
  IF rt = "Nil" THEN <<"Nil">>
  ELSE IF r.member = "Nil" THEN <<rt, ZeroWord>>
  ELSE <<rt, r.bits>>

unaligned_view(r) ==
  IF unaligned_is_nil(r) THEN <<"Nil">>
  ELSE IF unaligned_is_number(r) THEN <<"Number", unaligned_as_number_unchecked(r)>>
  ELSE IF unaligned_is_userdata(r) THEN <<"Userdata", unaligned_as_userdata_unchecked(r)>>
  ELSE <<"Unclassified">>

nan_view(r) ==
  IF nan_is_nil(r) THEN <<"Nil">>
  ELSE IF nan_is_number(r) THEN <<"Number", nan_as_number_unchecked(r)>>
  ELSE IF nan_is_userdata(r) THEN <<"Userdata", nan_as_userdata_unchecked(r)>>
  ELSE <<"Unclassified">>

View(b, r, rt) ==
  CASE b = "aligned" -> aligned_view(r)
    [] b = "separated" -> separated_view(r, rt)
    [] b = "unaligned" -> unaligned_view(r)
    [] b = "nan" -> nan_view(r)

\* The results array of layout b read back, index by index.
ResultsView(b) ==
  [k \in 1..Len(results) |-> View(b, results[k], IF b = "separated" THEN result_ts[k] ELSE "Nil")]

(***************************************************************************)
(* Initial state: no benchmark function running, no value constructed.     *)
(***************************************************************************)
Init ==
  /\ endian \in {"little", "big"}
  /\ bench = "none" /\ pc = "idle" /\ i = 0 /\ pass = 0
  /\ x = <<>> /\ y = <<>> /\ results = <<>>
  /\ x_ts = <<>> /\ y_ts = <<>> /\ result_ts = <<>>
  /\ arm = "none" /\ sum = ZeroWord /\ tested = {} /\ reads = {}
  /\ first = <<>>
  /\ finished = [b \in Layouts |-> <<>>]
  /\ vsrc = <<"none">> /\ uval = unaligned_from_nil /\ nval = nan_from_nil
  /\ res = [op |-> "none"]
  /\ ka = <<"Nil">> /\ kb = <<"Nil">>
  /\ kout = [b \in Layouts |-> <<"none">>]

(***************************************************************************)
(* The benchmark functions.  The harness runs them one after the other,    *)
(* in an order the source does not fix.                                    *)
(***************************************************************************)
\* The body of a #[bench] function up to bencher.iter: the arrays are built.
Begin(b) ==
  /\ pc = "idle"
  /\ finished[b] = <<>>
  /\ bench' = b
  /\ x' = InitialX(b) /\ y' = InitialY(b) /\ results' = InitialResults(b)
  /\ x_ts' = InitialXTs(b) /\ y_ts' = InitialYTs(b) /\ result_ts' = InitialResultTs(b)
  /\ i' = 0 /\ pass' = 0
  /\ pc' = "match"
  /\ UNCHANGED <<arm, sum, tested, reads, first, finished>>
  /\ UNCHANGED <<endian, valueVars, kernelVars>>

\* Whether the operand of the current step is a Number, as the scrutinee of
\* the match reads it: the variant, the tag, the discriminant, is_number().
OperandIsNumber(b, v, vt) ==
  CASE b = "aligned" -> v.tag = "Number"
    [] b = "separated" -> vt = "Number"
    [] b = "unaligned" -> v.discriminant = "Number"
    [] b = "nan" -> nan_is_number(v)

\* The arm the match of layout b selects for the elements at index i.
Arm(b) ==
  CASE b = "aligned" -> aligned_arm(x[i + 1], y[i + 1])
    [] b = "separated" -> separated_arm(x_ts[i + 1], y_ts[i + 1])
    [] b = "unaligned" -> unaligned_arm(x[i + 1].discriminant, y[i + 1].discriminant)
    [] b = "nan" -> nan_arm(nan_is_number(x[i + 1]), nan_is_number(y[i + 1]))

\* `match ..`: the scrutinee is evaluated and an arm selected.
Match ==
  /\ pc = "match"
  /\ arm' = Arm(bench)
  /\ tested' =
       (IF OperandIsNumber(bench, x[i + 1], IF bench = "separated" THEN x_ts[i + 1] ELSE "Nil")
        THEN {<<"x", i>>} ELSE {})
       \cup
       (IF OperandIsNumber(bench, y[i + 1], IF bench = "separated" THEN y_ts[i + 1] ELSE "Nil")
        THEN {<<"y", i>>} ELSE {})
  /\ pc' = IF arm' = "number" THEN "add" ELSE "store_nil"
  /\ UNCHANGED <<bench, i, pass, x, y, results, x_ts, y_ts, result_ts, sum, reads,
                 first, finished>>
  /\ UNCHANGED <<endian, valueVars, kernelVars>>

\* The sums the Number arm of layout b may compute at index i.
Sum(b) ==
  CASE b = "aligned" -> aligned_sum(x[i + 1], y[i + 1])
    [] b = "separated" -> separated_sum(x[i + 1], y[i + 1])
    [] b = "unaligned" -> unaligned_sum(x[i + 1], y[i + 1])
    [] b = "nan" -> nan_sum(x[i + 1], y[i + 1])

\* The Number arm reads both operands (unchecked, but for the aligned enum,
\* whose pattern binds them) and adds them.
Add ==
  /\ pc = "add"
  /\ \E s \in Sum(bench) : sum' = s
  /\ reads' = IF bench = "aligned" THEN {} ELSE {<<"x", i>>, <<"y", i>>}
  /\ pc' = "store_number"
  /\ UNCHANGED <<bench, i, pass, x, y, results, x_ts, y_ts, result_ts, arm, tested,
                 first, finished>>
  /\ UNCHANGED <<endian, valueVars, kernelVars>>

\* The element `*r = ..` writes in the Number arm and in the other arm.
NumberElem(b, s) ==
  CASE b = "aligned" -> aligned_Number(s)
    [] b = "separated" -> ValueData_Number(s)
    [] b = "unaligned" -> unaligned_from_number(s)
    [] b = "nan" -> nan_from_number(s)

NilElem(b) ==
  CASE b = "aligned" -> aligned_Nil
    [] b = "separated" -> ValueData_Nil
    [] b = "unaligned" -> unaligned_from_nil
    [] b = "nan" -> nan_from_nil

\* A slip in the Number arm: `*rt = ValueKind::Nil`, copied from the other arm.
separated_arm_tag_AlwaysNil(a) == "Nil"

\* The tag `*rt = ..` writes in each arm (separated_type_info).
separated_arm_tag(a) == IF a = "number" THEN "Number" ELSE "Nil"

\* The end of one loop step: the next index, or the end of the closure.
\* rs and rts are the results and tags as the step leaves them.
StepDone(rs, rts) ==
  /\ i' = i + 1
  /\ tested' = {} /\ reads' = {}
  /\ IF i + 1 = N
     THEN /\ pc' = "pass_done"
          /\ pass' = pass + 1
          /\ first' = IF pass = 0 THEN <<rs, rts>> ELSE first
     ELSE /\ pc' = "match"
          /\ UNCHANGED <<pass, first>>

\* `*r = ..`: the one write to results[i].
Store ==
  /\ pc \in {"store_number", "store_nil"}
  /\ results' = [results EXCEPT ![i + 1] =
                   IF pc = "store_number" THEN NumberElem(bench, sum) ELSE NilElem(bench)]
  /\ IF bench = "separated"
     THEN /\ pc' = "store_tag"
          /\ UNCHANGED <<i, pass, tested, reads, first>>
     ELSE StepDone(results', result_ts)
  /\ UNCHANGED <<bench, x, y, x_ts, y_ts, result_ts, arm, sum, finished>>
  /\ UNCHANGED <<endian, valueVars, kernelVars>>

\* `*rt = ..`: the write to result_ts[i] that follows it (separated_type_info).
StoreTag ==
  /\ pc = "store_tag"
  /\ result_ts' = [result_ts EXCEPT ![i + 1] = separated_arm_tag(arm)]
  /\ StepDone(results, result_ts')
  /\ UNCHANGED <<bench, x, y, results, x_ts, y_ts, arm, sum, finished>>
  /\ UNCHANGED <<endian, valueVars, kernelVars>>

\* bencher.iter calls the closure again.
NextPass ==
  /\ pc = "pass_done"
  /\ pass < MaxPasses
  /\ i' = 0
  /\ pc' = "match"
  /\ UNCHANGED <<bench, pass, x, y, results, x_ts, y_ts, result_ts, arm, sum, tested,
                 reads, first, finished>>
  /\ UNCHANGED <<endian, valueVars, kernelVars>>

\* bencher.iter returns and the function ends: its arrays are dropped.
Finish ==
  /\ pc = "pass_done"
  /\ finished' = [finished EXCEPT ![bench] = ResultsView(bench)]
  /\ bench' = "none" /\ pc' = "idle" /\ i' = 0 /\ pass' = 0
  /\ x' = <<>> /\ y' = <<>> /\ results' = <<>>
  /\ x_ts' = <<>> /\ y_ts' = <<>> /\ result_ts' = <<>>
  /\ arm' = "none" /\ sum' = ZeroWord /\ first' = <<>>
  /\ UNCHANGED <<tested, reads>>
  /\ UNCHANGED <<endian, valueVars, kernelVars>>

Next ==
  \/ \E b \in Layouts : Begin(b)
  \/ Match
  \/ Add
  \/ Store
  \/ StoreTag
  \/ NextPass
  \/ Finish

Spec == Init /\ [][Next]_vars

(***************************************************************************)
(* The value interface on its own: one value is constructed, classified    *)
(* and read; one loop step is run on one pair of operands in each layout.  *)
(* The arguments are drawn from the sets below.                            *)
(***************************************************************************)
\* The lower 48 bits of the sampled words.
LowSamples ==
  {<<0, 0, k>> : k \in 0..LowMax} \cup {<<32768, 0, 0>>, <<65535, 65535, 65535>>}

\* f64 arguments: either sign; the exponents of the subnormals, the smallest
\* and the largest normals, 1.0, 2.0, and the infinities and NaNs; every
\* value of the mantissa's top four bits (for a NaN: the quiet bit and the
\* type segment); the lower bits as sampled.
ExpSamples == {0, 1, 1023, 1024, 2046, 2047}
F64Samples ==
  {<<(sg * 32768) + (e * 16) + t, lw[1], lw[2], lw[3]>> :
     sg \in {0, 1}, e \in ExpSamples, t \in 0..15, lw \in LowSamples}

\* Pointer arguments: addresses below 2^48 and addresses that are not.
HighSamples == {0, 1, 2, 3, 4, 7, 8, 32760, 32768, 65535}
PtrSamples == {<<h, lw[1], lw[2], lw[3]>> : h \in HighSamples, lw \in LowSamples}

\* Nothing has been constructed or run yet.
Fresh ==
  /\ vsrc = <<"none">>
  /\ ka = <<"Nil">> /\ kb = <<"Nil">>
  /\ \A l \in Layouts : kout[l] = <<"none">>

\* Value::from_nil()
ConstructNil ==
  /\ Fresh
  /\ vsrc' = <<"nil">>
  /\ uval' = unaligned_from_nil
  /\ nval' = nan_from_nil
  /\ res' = [op |-> "none"]
  /\ UNCHANGED <<endian, benchVars, kernelVars>>

\* Value::from_number(f)
ConstructNumber ==
  \E f \in F64Samples :
    /\ Fresh
    /\ vsrc' = <<"number", f>>
    /\ uval' = unaligned_from_number(f)
    /\ nval' = nan_from_number(f)
    /\ res' = [op |-> "none"]
    /\ UNCHANGED <<endian, benchVars, kernelVars>>

\* Value::from_userdata(p)
ConstructUserdata ==
  \E p \in PtrSamples :
    /\ Fresh
    /\ vsrc' = <<"userdata", p>>
    /\ uval' = unaligned_from_userdata(p)
    /\ nval' = nan_from_userdata(p)
    /\ res' = [op |-> "none"]
    /\ UNCHANGED <<endian, benchVars, kernelVars>>

\* is_nil(), is_number(), is_userdata() of the value, in both layouts.
Classify ==
  /\ vsrc # <<"none">>
  /\ res' = [op |-> "classify",
             u |-> [nil |-> unaligned_is_nil(uval), number |-> unaligned_is_number(uval),
                    userdata |-> unaligned_is_userdata(uval)],
             n |-> [nil |-> nan_is_nil(nval), number |-> nan_is_number(nval),
                    userdata |-> nan_is_userdata(nval)]]
  /\ UNCHANGED <<endian, benchVars, kernelVars, vsrc, uval, nval>>

\* as_number() of the value, in both layouts.
AsNumber ==
  /\ vsrc # <<"none">>
  /\ res' = [op |-> "as_number", u |-> unaligned_as_number(uval), n |-> nan_as_number(nval)]
  /\ UNCHANGED <<endian, benchVars, kernelVars, vsrc, uval, nval>>

\* as_userdata() of the value, in both layouts.
AsUserdata ==
  /\ vsrc # <<"none">>
  /\ res' = [op |-> "as_userdata", u |-> unaligned_as_userdata(uval),
             n |-> nan_as_userdata(nval)]
  /\ UNCHANGED <<endian, benchVars, kernelVars, vsrc, uval, nval>>

\* The operands of the kernel step: Nil, numbers and pointers.
KernelF64 ==
  { <<16368, 0, 0, 0>>,              \* 1.0
    <<16384, 0, 0, 0>>,              \* 2.0
    <<16392, 0, 0, 0>>,              \* 3.0
    <<49144, 0, 0, 0>>,              \* -1.5
    <<0, 0, 0, 0>>,                  \* +0.0
    <<32768, 0, 0, 0>>,              \* -0.0
    <<32751, 65535, 65535, 65535>>,  \* f64::MAX
    <<0, 0, 0, 1>>,                  \* the smallest subnormal
    <<32752, 0, 0, 0>>,              \* +infinity
    <<65520, 0, 0, 0>>,              \* -infinity
    <<32760, 0, 0, 0>>,              \* the default quiet NaN
    <<65528, 0, 0, 0>>,              \* the default quiet NaN, sign set
    <<32761, 0, 0, 0>>,              \* a quiet NaN with payload bit 48 set
    <<32753, 0, 0, 0>> }             \* a signaling NaN with payload bit 48 set
KernelPtr == {<<0, 0, 0, 4096>>, <<1, 0, 0, 4096>>, <<65535, 65535, 65535, 65535>>}
KernelOperands ==
  {<<"Nil">>} \cup {<<"Number", f>> : f \in KernelF64}
              \cup {<<"Userdata", p>> : p \in KernelPtr}

\* The operands x[i] and y[i] are chosen.
LoadOperands ==
  \E a \in KernelOperands, b \in KernelOperands :
    /\ Fresh
    /\ ka' = a /\ kb' = b
    /\ kout' = [l \in Layouts |-> <<"none">>]
    /\ UNCHANGED <<endian, benchVars, valueVars>>

\* The same value in each layout.
aligned_of(v) ==
  CASE v[1] = "Nil" -> aligned_Nil
    [] v[1] = "Number" -> aligned_Number(v[2])
    [] v[1] = "Userdata" -> aligned_Userdata(v[2])

separated_of(v) ==
  CASE v[1] = "Nil" -> <<ValueData_Nil, "Nil">>
    [] v[1] = "Number" -> <<ValueData_Number(v[2]), "Number">>
    [] v[1] = "Userdata" -> <<ValueData_Userdata(v[2]), "Userdata">>

unaligned_of(v) ==
  CASE v[1] = "Nil" -> unaligned_from_nil
    [] v[1] = "Number" -> unaligned_from_number(v[2])
    [] v[1] = "Userdata" -> unaligned_from_userdata(v[2])

nan_of(v) ==
  CASE v[1] = "Nil" -> nan_from_nil
    [] v[1] = "Number" -> nan_from_number(v[2])
    [] v[1] = "Userdata" -> nan_from_userdata(v[2])

\* What the loop step of layout l may write for the operands a and b, read back.
StepViews(l, a, b) ==
  CASE l = "aligned" -> {aligned_view(r) : r \in aligned_step(aligned_of(a), aligned_of(b))}
    [] l = "separated" ->
         {separated_view(r[1], r[2]) : r \in separated_step(separated_of(a), separated_of(b))}
    [] l = "unaligned" ->
         {unaligned_view(r) : r \in unaligned_step(unaligned_of(a), unaligned_of(b))}
    [] l = "nan" -> {nan_view(r) : r \in nan_step(nan_of(a), nan_of(b))}

\* One loop step of layout l on the operands.
KernelStep(l) ==
  /\ vsrc = <<"none">>
  /\ kout[l] = <<"none">>
  /\ \E r \in StepViews(l, ka, kb) : kout' = [kout EXCEPT ![l] = r]
  /\ UNCHANGED <<endian, benchVars, valueVars, ka, kb>>

ValueNext ==
  \/ ConstructNil
  \/ ConstructNumber
  \/ ConstructUserdata
  \/ Classify
  \/ AsNumber
  \/ AsUserdata
  \/ LoadOperands
  \/ \E l \in Layouts : KernelStep(l)

ValueSpec == Init /\ [][ValueNext]_vars

(***************************************************************************)
(* Properties.                                                             *)
(***************************************************************************)
ExactlyOne(c) == Cardinality({k \in {"nil", "number", "userdata"} : c[k]}) = 1

\* C1 (as claimed): in the unaligned and the NaN-tagged layout every value a
\* constructor returns -- from_nil(), from_number(f) for any bit pattern f,
\* from_userdata(p) for any 64-bit p -- satisfies exactly one of is_nil,
\* is_number, is_userdata.
C1_ExactlyOneClassifier ==
  res.op = "classify" => ExactlyOne(res.u) /\ ExactlyOne(res.n)

\* A NaN whose bits the NaN-tagged layout reserves: the twelve bits of the
\* NaN signature (62..51) all set and a type segment (50..48) that is not zero.
Collides(f) == ((f[1] % 32768) \div 8) = 4095 /\ (f[1] % 8) # 0

\* C2: as_number(from_number(f)) is Some(f), bit for bit, in the unaligned and
\* the NaN-tagged layout, for every finite f (+0 and -0 among them) and every
\* NaN f that does not collide with the reserved patterns.
C2_NumberRoundTrip ==
  (/\ res.op = "as_number"
   /\ vsrc[1] = "number"
   /\ (F64IsFinite(vsrc[2]) \/ (F64IsNaN(vsrc[2]) /\ ~Collides(vsrc[2]))))
  => res.u = Some(vsrc[2]) /\ res.n = Some(vsrc[2])

\* C2's case: a quiet NaN with a payload outside the type segment went through
\* from_number and as_number of both layouts and came back as it was.
C2_Witness ==
  /\ res.op = "as_number"
  /\ vsrc = <<"number", <<32760, 0, 0, 1>>>>
  /\ res.n = Some(<<32760, 0, 0, 1>>)
  /\ res.u = Some(<<32760, 0, 0, 1>>)

\* Two results of a kernel step are the same number: the same bits, or both NaN.
SameNumber(p, q) == p = q \/ (F64IsNaN(p) /\ F64IsNaN(q))

BothNumber == ka[1] = "Number" /\ kb[1] = "Number"

\* C3 (as claimed): the element one loop step writes is Number(x + y) if and
\* only if both operands are Number(x) and Number(y), and Nil otherwise (so
\* for a Userdata operand); and for the same operands the four layouts write
\* elements of the same classification and the same numeric value.
C3_CombineAgrees ==
  /\ \A l \in Layouts :
       kout[l] # <<"none">> =>
         IF BothNumber
         THEN kout[l][1] = "Number" /\ kout[l][2] \in F64Add(ka[2], kb[2])
         ELSE kout[l] = <<"Nil">>
  /\ \A l, m \in Layouts :
       (kout[l] # <<"none">> /\ kout[m] # <<"none">>) =>
         /\ kout[l][1] = kout[m][1]
         /\ kout[l][1] = "Number" => SameNumber(kout[l][2], kout[m][2])

\* The indices of 0..N-1 at which x or y holds Nil.
ExpectedNilCount == Cardinality({k \in 0..(N - 1) : (k % 13) = 0 \/ (k % 33) = 0})

NilCountOf(view) == Cardinality({k \in 1..Len(view) : view[k] = <<"Nil">>})

\* The indices below n at which x or y holds Nil.
ExpectedNilBelow(n) == Cardinality({k \in 0..(n - 1) : (k % 13) = 0 \/ (k % 33) = 0})

\* C4: after a complete pass over 0..N-1 the results array holds as many Nil
\* elements as there are indices i with i % 13 = 0 or i % 33 = 0, in each of
\* the four layouts alike; and so for every shorter length n: when the first
\* pass has done the indices below n, results[0..n-1] holds as many Nil
\* elements as there are such indices below n.
C4_NilCount ==
  /\ pc = "pass_done" => NilCountOf(ResultsView(bench)) = ExpectedNilCount
  /\ (pass = 0 /\ pc = "match") =>
       NilCountOf(SubSeq(ResultsView(bench), 1, i)) = ExpectedNilBelow(i)
  /\ \A b \in Layouts : finished[b] # <<>> => NilCountOf(finished[b]) = ExpectedNilCount
  /\ \A b, c \in Layouts :
       (finished[b] # <<>> /\ finished[c] # <<>>) =>
         NilCountOf(finished[b]) = NilCountOf(finished[c])

\* C4's case: all four benchmarks have run, and index 13 (Nil in x alone) and
\* index 33 (Nil in y alone) are both among the Nil results.
C4_Witness ==
  /\ \A b \in Layouts :
       /\ finished[b] # <<>>
       /\ finished[b][14] = <<"Nil">>
       /\ finished[b][34] = <<"Nil">>
       /\ finished[b][2][1] = "Number"
  /\ ExpectedNilCount = 4

\* C5 (as claimed): from_userdata(p) of the NaN-tagged layout, for a p with
\* any of the bits 48..63 set, does not silently corrupt the tag: the word it
\* returns (the code has no other way to signal anything) has the sign bit
\* clear, the NaN signature, and the type segment of Userdata.
C5_WideHandleKeepsTag ==
  (vsrc[1] = "userdata" /\ vsrc[2][1] # 0) =>
    /\ nval[1] = WordOr(NAN_MASK, nan_ValueKind("Userdata"))[1]
    /\ nan_is_userdata(nval)

\* A double ordinary arithmetic produces: finite, infinite, or the default
\* quiet NaN with either sign.
Ordinary(f) ==
  F64IsFinite(f) \/ F64IsInf(f) \/ f = <<32760, 0, 0, 0>> \/ f = <<65528, 0, 0, 0>>

C7_CheckedAccessors ==
  /\ res.op = "as_number" =>
       /\ res.u[1] = "Some" <=> vsrc[1] = "number"
       /\ res.n[1] = "Some" <=> vsrc[1] = "number"
  /\ res.op = "as_userdata" =>
       /\ res.u[1] = "Some" <=> vsrc[1] = "userdata"
       /\ res.n[1] = "Some" <=> vsrc[1] = "userdata"

\* The tag describes the member of the payload that was last written.
Paired(d, t) == d.member = t

\* C8 (as claimed): in every state of the separated_type_info benchmark, also
\* between the two writes of one loop step, the tag at every index describes
\* the payload at that index, in x, in y and in results.
C8_TagsAlwaysPaired ==
  bench = "separated" =>
    \A k \in 1..N :
      /\ Paired(x[k], x_ts[k])
      /\ Paired(y[k], y_ts[k])
      /\ Paired(results[k], result_ts[k])

\* C8 (amended): the tag at every index describes the payload at that index,
\* in x, in y and in results, in every state of the separated_type_info
\* benchmark but one: between the write of results[i] and the write of
\* result_ts[i] of one loop step, where the pair at the current index i alone
\* may disagree.
C8_TagsPairedBetweenSteps ==
  bench = "separated" =>
    \A k \in 1..N :
      /\ Paired(x[k], x_ts[k])
      /\ Paired(y[k], y_ts[k])
      /\ Paired(results[k], result_ts[k]) \/ (pc = "store_tag" /\ k = i + 1)

\* C8's case: a loop step of the separated_type_info kernel has written a
\* Number and its tag, and the next step is about to start.
C8_Witness ==
  /\ bench = "separated" /\ pc = "match" /\ i = 2
  /\ results[2].member = "Number" /\ result_ts[2] = "Number"

\* The element of array arr ("x" or "y") at index idx is a Number.
ElemIsNumber(arr, idx) ==
  LET v == IF arr = "x" THEN x[idx + 1] ELSE y[idx + 1]
  IN  CASE bench = "separated" ->
             /\ v.member = "Number"
             /\ (IF arr = "x" THEN x_ts[idx + 1] ELSE y_ts[idx + 1]) = "Number"
        [] bench = "unaligned" -> unaligned_is_number(v)
        [] bench = "nan" -> nan_is_number(v)
        [] OTHER -> FALSE

\* C9: every unchecked numeric read of the separated, unaligned and NaN-tagged
\* kernels is of an element that the match of the same loop step, at the same
\* index, found to be a Number, and that is a Number when it is read: no
\* unchecked read is of a Nil or a Userdata.
C9_UncheckedReadsChecked ==
  \A r \in reads :
    /\ r \in tested
    /\ r[2] = i
    /\ ElemIsNumber(r[1], r[2])

\* C9's case: the NaN-tagged kernel has read both operands at index 1 unchecked.
C9_Witness ==
  /\ bench = "nan" /\ pc = "store_number"
  /\ reads = {<<"x", 1>>, <<"y", 1>>}

\* C10: a kernel pass never writes x or y (or their tags), and every pass after
\* the first leaves results (and result_ts) element for element as the first
\* pass left them: at the end of each pass, and at every point of it.
C10_PassesIdempotent ==
  bench # "none" =>
    /\ x = InitialX(bench) /\ y = InitialY(bench)
    /\ x_ts = InitialXTs(bench) /\ y_ts = InitialYTs(bench)
    /\ pass >= 1 => <<results, result_ts>> = first

\* C10's case: a second pass of the unaligned kernel is complete.
C10_Witness ==
  /\ bench = "unaligned" /\ pc = "pass_done" /\ pass = 2
  /\ <<results, result_ts>> = first
  /\ results[2].discriminant = "Number"

=============================================================================
